---------------------------- MODULE Spec2Model ----------------------------
(***************************************************************************)
(* A model of the SMS dialogue core: the credit ledger (User), the         *)
(* conversation store (Message), the continuation store (RemainingMessage),*)
(* the provider router and the SMS controller that composes them.  Every   *)
(* awaited I/O operation of a handler is one step of the request that      *)
(* issued it; the code between two awaits runs atomically, as it does on   *)
(* the Node.js event loop.                                                 *)
(***************************************************************************)
EXTENDS Integers, Sequences, FiniteSets, TLC

(***************************************************************************)
(* Bounds of the model                                                     *)
(***************************************************************************)
\* events of the environment over a whole run: inbound SMS requests,
\* payment requests, storage failures and advances of the clock
MaxOps == 3
\* request slots (requests that may be in flight together)
MaxInFlight == 2
\* least time the generation of a reply takes, in milliseconds
MinLatency == 1

(***************************************************************************)
(* Configuration (environment) and program constants                       *)
(***************************************************************************)
\* config.app.freeSmsCredits: FREE_SMS_CREDITS, here a trial of 2 credits
FreeSmsCredits == 2
\* config.app.maxSmsLength: MAX_SMS_LENGTH, here 36 characters
MaxSmsLength == 36
\* the literal 34 handleLongResponse subtracts for the marker
SuffixLength == 34
\* maxlength of Message.content
MessageMaxLength == 2000
\* the history window generateAIResponse asks for
HistoryLimit == 10
\* RemainingMessage.expiresAt default: 24 hours after creation, in ms
TtlMs == 24 * 60 * 60 * 1000

Phones == {"p1", "p2"}
NoUser == [none |-> TRUE]
NoDoc == [none |-> TRUE]

(***************************************************************************)
(* Strings are sequences of one-character strings                          *)
(***************************************************************************)
Fill(n, c) == [i \in 1..n |-> c]

IsSpace(c) == c \in {" ", "\n", "\t"}

RECURSIVE TrimStart(_)
TrimStart(s) ==
    IF s = <<>> THEN <<>>
    ELSE IF IsSpace(Head(s)) THEN TrimStart(Tail(s)) ELSE s

RECURSIVE TrimEnd(_)
TrimEnd(s) ==
    IF s = <<>> THEN <<>>
    ELSE IF IsSpace(s[Len(s)]) THEN TrimEnd(SubSeq(s, 1, Len(s) - 1)) ELSE s

\* String.prototype.trim
Trim(s) == TrimEnd(TrimStart(s))

Clamp(i, n) == IF i < 0 THEN 0 ELSE IF i > n THEN n ELSE i

\* String.prototype.substring(start, end): indices are clamped to
\* [0, length] and swapped when start > end; 0-based, end exclusive
Substring(s, start, end) ==
    LET a == Clamp(start, Len(s))
        b == Clamp(end, Len(s))
        lo == IF a <= b THEN a ELSE b
        hi == IF a <= b THEN b ELSE a
    IN SubSeq(s, lo + 1, hi)

\* String.prototype.substring(start)
SubstringFrom(s, start) == Substring(s, start, Len(s))

UpperChars ==
    <<"A", "B", "C", "D", "E", "F", "G", "H", "I", "J", "K", "L", "M",
      "N", "O", "P", "Q", "R", "S", "T", "U", "V", "W", "X", "Y", "Z">>
LowerChars ==
    <<"a", "b", "c", "d", "e", "f", "g", "h", "i", "j", "k", "l", "m",
      "n", "o", "p", "q", "r", "s", "t", "u", "v", "w", "x", "y", "z">>

ToLowerChar(c) ==
    IF \E i \in 1..Len(UpperChars) : UpperChars[i] = c
    THEN LowerChars[CHOOSE i \in 1..Len(UpperChars) : UpperChars[i] = c]
    ELSE c

\* String.prototype.toLowerCase
ToLowerCase(s) == [i \in 1..Len(s) |-> ToLowerChar(s[i])]

\* String.prototype.includes
Includes(s, sub) ==
    \E i \in 1..(Len(s) - Len(sub) + 1) : SubSeq(s, i, i + Len(sub) - 1) = sub

\* "....Reply MORE to continue reading"
ContinuationMarker ==
    <<".", ".", ".", ".", "R", "e", "p", "l", "y", " ", "M", "O", "R", "E",
      " ", "t", "o", " ", "c", "o", "n", "t", "i", "n", "u", "e", " ",
      "r", "e", "a", "d", "i", "n", "g">>

(***************************************************************************)
(* Inputs                                                                  *)
(***************************************************************************)
CmdStop == <<"s", "t", "o", "p">>
CmdAccount == <<"a", "c", "c", "o", "u", "n", "t">>
CmdDeleteHistory ==
    <<"d", "e", "l", "e", "t", "e", " ", "h", "i", "s", "t", "o", "r", "y">>
CmdDeleteAccount ==
    <<"d", "e", "l", "e", "t", "e", " ", "a", "c", "c", "o", "u", "n", "t">>
CmdMore == <<"m", "o", "r", "e">>

\* req.body.Body of the validated requests the model sends
Bodies ==
    { <<"S", "T", "O", "P">>,
      <<"a", "c", "c", "o", "u", "n", "t">>,
      <<"D", "e", "l", "e", "t", "e", " ", "H", "i", "s", "t", "o", "r", "y">>,
      <<"D", "E", "L", "E", "T", "E", " ", "A", "C", "C", "O", "U", "N", "T">>,
      <<"M", "O", "R", "E", " ">>,
      <<"h", "i">>,
      <<" ">> }

\* what the request carries as MediaUrl0 and what becomes of it: no media;
\* a file over the size ceiling or one that cannot be fetched; a file the
\* transcription provider rejects with status 413 or fails on otherwise;
\* a file it transcribes
Medias ==
    {"none", "oversize", "unreachable", "rejected_413", "stt_error",
     "transcribed"}

\* getSupportedFormats
SupportedFormats ==
    {"audio/wav", "audio/mp3", "audio/mp4", "audio/mpeg", "audio/mpga",
     "audio/webm", "audio/ogg"}

\* what the request carries as MediaContentType0 with its media: a type
\* of the supported set and one outside it
ContentTypes == {"audio/ogg", "video/mp4"}

\* the requests the model sends: every body without media, and a blank
\* body with every kind of media and content type
Inbound ==
    {[body |-> b, media |-> "none", contentType |-> ""] : b \in Bodies}
      \cup {[body |-> <<" ">>, media |-> m, contentType |-> t] :
                m \in Medias \ {"none"}, t \in ContentTypes}

\* the text the transcription provider returns, already trimmed
Transcript == <<"h", "i">>

\* the split point of handleLongResponse
AllowedLength == MaxSmsLength - SuffixLength

\* texts the provider may answer with: one as long as the limit, three
\* one character longer, with a remainder that starts with a letter,
\* starts with a blank, or is blank altogether, and one a character longer
\* than a stored turn may be
ProviderReplies ==
    { Fill(MaxSmsLength, "x"),
      Fill(AllowedLength, "a") \o Fill(SuffixLength, "b") \o <<"c">>,
      Fill(AllowedLength, "a") \o <<" ">> \o Fill(SuffixLength, "b"),
      Fill(AllowedLength, "a") \o Fill(SuffixLength + 1, " "),
      Fill(MessageMaxLength + 1, "z") }

\* req.body.credit of the payment requests the model sends
CreditAmounts == {0 - 1, 0, 2}

(***************************************************************************)
(* State                                                                   *)
(***************************************************************************)
VARIABLES
    users,      \* User collection: phone -> document or NoUser
    messages,   \* Message collection: phone -> documents, oldest first
    remaining,  \* RemainingMessage collection: phone -> documents
    now,        \* Date.now(), in milliseconds
    req,        \* the inbound SMS requests: slot -> request
    pay,        \* the payment request
    timers,     \* notifications scheduled with setTimeout, in order
    scheduled,  \* history: phone -> the notifications scheduled for the
                \* account so far, with a "credit" mark at every top-up
    assigned,   \* history: phone -> the sequence indices given to the
                \* continuations of the account so far, in order
    nOps        \* events of the environment so far

vars ==
    <<users, messages, remaining, now, req, pay, timers, scheduled, assigned,
      nOps>>

Reqs == 1..MaxInFlight

\* generateAIResponse calls routeMessage(message, history): options is {}
NoOptions == [provider |-> ""]

IdleReq ==
    [pc |-> "idle", phone |-> "", text |-> <<>>, user |-> NoUser,
     history |-> <<>>, options |-> NoOptions, aiResponse |-> <<>>,
     latestIndex |-> 0, replies |-> <<>>, calls |-> 0, failedAt |-> "none",
     media |-> "none", contentType |-> "", sttCalls |-> <<>>,
     maxSmsLength |-> MaxSmsLength]

IdlePay == [pc |-> "idle", phone |-> "", credits |-> 0, user |-> NoUser,
            status |-> 0]

\* the turns the seeded account has stored before the process starts:
\* five exchanges, oldest first
SeedTurns ==
    [i \in 1..10 |->
        [role |-> IF i % 2 = 1 THEN "user" ELSE "assistant",
         content |-> <<IF i % 2 = 1 THEN "q" ELSE "r",
                       <<"1", "2", "3", "4", "5">>[(i + 1) \div 2]>>]]

\* an account the collection holds before the process starts, deactivated
\* from outside (no code of the repository writes isActive)
SeedAccount == [blance |-> 1, smsSent |-> 3, isActive |-> FALSE]

Init ==
    /\ users = [p \in Phones |-> IF p = "p2" THEN SeedAccount ELSE NoUser]
    /\ messages = [p \in Phones |-> IF p = "p2" THEN SeedTurns ELSE <<>>]
    /\ remaining = [p \in Phones |-> <<>>]
    /\ now = 0
    /\ req = [r \in Reqs |-> IdleReq]
    /\ pay = IdlePay
    /\ timers = <<>>
    /\ scheduled = [p \in Phones |-> <<>>]
    /\ assigned = [p \in Phones |-> <<>>]
    /\ nOps = 0


(***************************************************************************)
(* Storage operations                                                      *)
(***************************************************************************)
\* Message.create: the content setter trims, then `required` and
\* `maxlength` validate the trimmed value
MessageValid(content) ==
    /\ Len(Trim(content)) > 0
    /\ Len(Trim(content)) <= MessageMaxLength

\* the collections are kept per phone: every query of the code filters
\* on the phone, and the document's phone is its key here
MessageDoc(role, content) == [role |-> role, content |-> Trim(content)]

\* DeleteUserMessages that deletes nothing
DeleteNoMessages(p) == messages

\* Message.deleteUserMessages: deleteMany({phone})
DeleteUserMessages(p) == [messages EXCEPT ![p] = <<>>]

\* RemainingMessage.deleteMany({phone})
DeleteRemainingOf(p) == [remaining EXCEPT ![p] = <<>>]

\* Message.getConversationHistory: find({phone}).sort({createdAt: 1})
\* .limit(limit); the clock never runs backwards, so createdAt order is
\* insertion order
GetConversationHistory(p, limit) ==
    LET mine == messages[p]
    IN SubSeq(mine, 1, IF Len(mine) < limit THEN Len(mine) ELSE limit)

\* Unexpired with $gte for $gt
UnexpiredInclusive(d, t) == d.expiresAt >= t

\* the filter of getLatestRemainingMessage: {phone, expiresAt: {$gt: now}}
Unexpired(d, t) == d.expiresAt > t

\* GetLatestRemainingMessage sorted by createdAt ascending
GetOldestRemainingMessage(p) ==
    LET cand == {i \in 1..Len(remaining[p]) :
                    Unexpired(remaining[p][i], now)}
    IN IF cand = {} THEN {NoDoc}
       ELSE {remaining[p][i] : i \in
                {j \in cand : \A k \in cand :
                    remaining[p][k].createdAt >= remaining[p][j].createdAt}}

\* getLatestRemainingMessage: findOne(filter).sort({createdAt: -1}); the
\* documents it may return (one of the newest; NoDoc when none matches)
GetLatestRemainingMessage(p) ==
    LET cand == {i \in 1..Len(remaining[p]) :
                    Unexpired(remaining[p][i], now)}
    IN IF cand = {} THEN {NoDoc}
       ELSE {remaining[p][i] : i \in
                {j \in cand : \A k \in cand :
                    remaining[p][k].createdAt <= remaining[p][j].createdAt}}

\* CleanupExpiredResult with a filter on createdAt
CleanupByCreation ==
    [p \in Phones |->
        SelectSeq(remaining[p], LAMBDA d : ~(d.createdAt < now))]

\* cleanupExpired: deleteMany({expiresAt: {$lt: now}})
CleanupExpiredResult ==
    [p \in Phones |->
        SelectSeq(remaining[p], LAMBDA d : ~(d.expiresAt < now))]

\* createRemainingMessage, first half: findOne({phone}).sort({messageIndex:
\* -1}), reduced to the index it carries (0 when there is no document)
LatestMessageIndex(p) ==
    LET idx == {remaining[p][i].messageIndex : i \in 1..Len(remaining[p])}
    IN IF idx = {} THEN 0 ELSE CHOOSE m \in idx : \A n \in idx : n <= m

\* RemainingMessage.create: the content setter trims, `required` and the
\* pre-save hook reject an empty content
RemainingValid(content) == Len(Trim(content)) > 0

RemainingDoc(content, latest) ==
    LET messageIndex == IF latest > 0 THEN latest + 1 ELSE 1
    IN [content |-> Trim(content),
        messageIndex |-> messageIndex, totalParts |-> messageIndex,
        expiresAt |-> now + TtlMs, createdAt |-> now]

\* ConsumeCredit without the usage count
ConsumeCreditNoCount(u) ==
    IF u.blance > 0 THEN [u EXCEPT !.blance = @ - 1] ELSE u

\* userSchema.methods.consumeCredit
ConsumeCredit(u) ==
    IF u.blance > 0
    THEN [u EXCEPT !.blance = @ - 1, !.smsSent = @ + 1]
    ELSE u

\* the validators of userSchema that save() and create() run: blance and
\* smsSent have min 0
UserValid(u) == u.blance >= 0 /\ u.smsSent >= 0

\* IsBlocked that already refuses the last credit
IsBlockedAtOne(user) == user.blance <= 1

\* IsBlocked with < for <=
IsBlockedBelowZero(user) == user.blance < 0

\* the test of manageUserCredits that blocks an account
IsBlocked(user) == user.blance <= 0

\* NewUser with the first message charged to the trial balance
NewUserCharged ==
    [blance |-> FreeSmsCredits - 1, smsSent |-> 1, isActive |-> TRUE]

\* the document User.create({phNo, blance: freeSmsCredits, smsSent: 1})
\* inserts; isActive takes its default
NewUser == [blance |-> FreeSmsCredits, smsSent |-> 1, isActive |-> TRUE]

(***************************************************************************)
(* Replies (the TwiML envelope sendTwiMLResponse writes)                   *)
(***************************************************************************)
Reply(kind, text) == [kind |-> kind, text |-> text]

ErrorReply == Reply("error", <<>>)

\* Thrown with a reply from the catch block of processUserMessage as well
ThrownRepliedTwice(q) ==
    [q EXCEPT !.pc = "done", !.failedAt = q.pc,
              !.replies = @ \o <<ErrorReply, ErrorReply>>]

\* Thrown with a catch block that only logs
ThrownNoReply(q) == [q EXCEPT !.pc = "done", !.failedAt = q.pc]

\* the catch block of handleIncomingSMS: whatever a step throws ends the
\* request with the generic reply
Thrown(q) ==
    [q EXCEPT !.pc = "done", !.failedAt = q.pc,
              !.replies = Append(@, ErrorReply)]

Replied(q, reply) ==
    [q EXCEPT !.pc = "done", !.replies = Append(@, reply)]

\* steps that await the database
DbSteps ==
    {"cmd_account", "cmd_delete_history", "cmd_delete_user",
     "cmd_delete_messages", "cmd_delete_remaining", "cmd_more",
     "find_user", "create_user", "save_user", "save_user_turn",
     "get_history", "save_assistant_turn", "find_latest_index",
     "create_remaining"}

InFlight(r) == req[r].pc \notin {"idle", "done"}
PayInFlight == pay.pc \notin {"idle", "done"}
NoneInFlight == (\A r \in Reqs : ~InFlight(r)) /\ ~PayInFlight

\* the lowest free request slot
FreeSlot(r) ==
    /\ ~InFlight(r)
    /\ \A s \in Reqs : s < r => InFlight(s)

(***************************************************************************)
(* handleIncomingSMS up to its first database await.  The requests carry   *)
(* no media, so handleAudioInbound yields {transcript: null, usedAudio:    *)
(* false}.                                                                 *)
(***************************************************************************)
\* CommandStep without toLowerCase
CommandStepCaseSensitive(message) ==
    LET lowerMessage == Trim(message)
    IN IF lowerMessage = CmdStop THEN "stop"
       ELSE IF lowerMessage = CmdAccount THEN "cmd_account"
       ELSE IF lowerMessage = CmdDeleteHistory THEN "cmd_delete_history"
       ELSE IF lowerMessage = CmdDeleteAccount THEN "cmd_delete_user"
       ELSE IF lowerMessage = CmdMore THEN "cmd_more"
       ELSE "find_user"

\* handleSpecialCommands: the switch on message.toLowerCase().trim()
CommandStep(message) ==
    LET lowerMessage == Trim(ToLowerCase(message))
    IN IF lowerMessage = CmdStop THEN "stop"
       ELSE IF lowerMessage = CmdAccount THEN "cmd_account"
       ELSE IF lowerMessage = CmdDeleteHistory THEN "cmd_delete_history"
       ELSE IF lowerMessage = CmdDeleteAccount THEN "cmd_delete_user"
       ELSE IF lowerMessage = CmdMore THEN "cmd_more"
       ELSE "find_user"

\* the messages of the errors the audio stage can raise
DownloadFailedMessage ==
    <<"F", "a", "i", "l", "e", "d", " ", "t", "o", " ", "d", "o",
      "w", "n", "l", "o", "a", "d", " ", "a", "u", "d", "i", "o",
      " ", "f", "i", "l", "e">>

TooLargeForProviderMessage ==
    <<"A", "u", "d", "i", "o", " ", "f", "i", "l", "e", " ", "t",
      "o", "o", " ", "l", "a", "r", "g", "e", " ", "f", "o", "r",
      " ", "O", "p", "e", "n", "A", "I", " ", "W", "h", "i", "s",
      "p", "e", "r">>

ProviderUnavailableMessage ==
    <<"O", "p", "e", "n", "A", "I", " ", "W", "h", "i", "s", "p",
      "e", "r", " ", "s", "e", "r", "v", "i", "c", "e", " ", "t",
      "e", "m", "p", "o", "r", "a", "r", "i", "l", "y", " ", "u",
      "n", "a", "v", "a", "i", "l", "a", "b", "l", "e">>

TooLarge == <<"t", "o", "o", " ", "l", "a", "r", "g", "e">>

\* the sentinel transcript "audio too large"
AudioTooLarge ==
    <<"a", "u", "d", "i", "o", " ", "t", "o", "o", " ", "l", "a", "r", "g",
      "e">>

\* downloadAudio and transcribeAudioBuffer: the error they raise for the
\* media, <<>> when they raise none.  axios rejects a body over
\* maxContentLength, and downloadAudio rethrows every failure with one
\* message
AudioError(media) ==
    IF media \in {"oversize", "unreachable"} THEN DownloadFailedMessage
    ELSE IF media = "rejected_413" THEN TooLargeForProviderMessage
    ELSE IF media = "stt_error" THEN ProviderUnavailableMessage
    ELSE <<>>

\* processInboundAudio: transcript (<<>> for null), usedAudio, and whether
\* it throws
ProcessInboundAudio(media) ==
    IF media = "none"
    THEN [transcript |-> <<>>, usedAudio |-> FALSE, thrown |-> FALSE]
    ELSE IF AudioError(media) = <<>>
         THEN [transcript |-> Transcript, usedAudio |-> TRUE,
               thrown |-> FALSE]
         ELSE IF Includes(AudioError(media), TooLarge)
              THEN [transcript |-> AudioTooLarge, usedAudio |-> TRUE,
                    thrown |-> FALSE]
              ELSE [transcript |-> <<>>, usedAudio |-> FALSE,
                    thrown |-> TRUE]

\* the calls of openaiService.transcribeAudioBuffer that processInboundAudio
\* makes, each given by the content type it passes: one when the download
\* has succeeded, with mediaContentType || "audio/wav"
TranscriptionCalls(media, contentType) ==
    IF media = "none" \/ AudioError(media) = DownloadFailedMessage
    THEN <<>>
    ELSE << IF contentType = "" THEN "audio/wav" ELSE contentType >>

Receive(r, p, body, media, contentType) ==
    /\ FreeSlot(r)
    /\ nOps < MaxOps
    /\ nOps' = nOps + 1
    /\ LET audio == ProcessInboundAudio(media)
           trimmed == Trim(body)
           userMessage ==
               IF audio.usedAudio /\ audio.transcript # <<>>
               THEN IF trimmed # <<>>
                    THEN trimmed \o <<" ">> \o audio.transcript
                    ELSE audio.transcript
               ELSE trimmed
           arrived ==
               [IdleReq EXCEPT !.phone = p, !.media = media,
                               !.contentType = contentType,
                               !.sttCalls =
                                   TranscriptionCalls(media, contentType)]
           q == [arrived EXCEPT !.text = userMessage]
       IN req' = [req EXCEPT ![r] =
            IF audio.thrown
            THEN Thrown([arrived EXCEPT !.pc = "audio"])
            ELSE IF audio.transcript = AudioTooLarge
            THEN Replied(arrived, Reply("audio_too_large", <<>>))
            ELSE IF userMessage = <<>>
            THEN Replied(q, Reply("empty", <<>>))
            ELSE IF CommandStep(userMessage) = "stop"
                 THEN Replied(q, Reply("optout", <<>>))
                 ELSE [q EXCEPT !.pc = CommandStep(userMessage)]]
    /\ UNCHANGED <<users, messages, remaining, now, pay, timers, scheduled, assigned>>

\* any awaited database operation may reject
DbFault(r) ==
    /\ req[r].pc \in DbSteps
    /\ nOps < MaxOps
    /\ nOps' = nOps + 1
    /\ req' = [req EXCEPT ![r] = Thrown(@)]
    /\ UNCHANGED <<users, messages, remaining, now, pay, timers, scheduled, assigned>>

(***************************************************************************)
(* handleSpecialCommands                                                   *)
(***************************************************************************)
\* case "account": User.findOne, then the balance report
CmdAccountStep(r) ==
    /\ req[r].pc = "cmd_account"
    /\ LET user == users[req[r].phone]
           credits == IF user # NoUser THEN user.blance ELSE 0
       IN req' = [req EXCEPT ![r] = Replied(@, Reply("account", <<credits>>))]
    /\ UNCHANGED <<users, messages, remaining, now, pay, timers, scheduled, assigned, nOps>>

\* CmdDeleteHistoryStep with a filter that matches every account
CmdDeleteHistoryStepAll(r) ==
    /\ req[r].pc = "cmd_delete_history"
    /\ messages' = [p \in Phones |-> <<>>]
    /\ req' = [req EXCEPT ![r] = Replied(@, Reply("history_deleted", <<>>))]
    /\ UNCHANGED <<users, remaining, now, pay, timers, scheduled, assigned, nOps>>

\* case "delete history"
CmdDeleteHistoryStep(r) ==
    /\ req[r].pc = "cmd_delete_history"
    /\ messages' = DeleteUserMessages(req[r].phone)
    /\ req' = [req EXCEPT ![r] = Replied(@, Reply("history_deleted", <<>>))]
    /\ UNCHANGED <<users, remaining, now, pay, timers, scheduled, assigned, nOps>>

\* case "delete account", first await: User.deleteOne
CmdDeleteUserStep(r) ==
    /\ req[r].pc = "cmd_delete_user"
    /\ users' = [users EXCEPT ![req[r].phone] = NoUser]
    /\ scheduled' = [scheduled EXCEPT ![req[r].phone] = <<>>]
    /\ req' = [req EXCEPT ![r].pc = "cmd_delete_messages"]
    /\ UNCHANGED <<messages, remaining, now, pay, timers, assigned, nOps>>

\* case "delete account", second await: Message.deleteUserMessages
CmdDeleteMessagesStep(r) ==
    /\ req[r].pc = "cmd_delete_messages"
    /\ messages' = DeleteUserMessages(req[r].phone)
    /\ req' = [req EXCEPT ![r].pc = "cmd_delete_remaining"]
    /\ UNCHANGED <<users, remaining, now, pay, timers, scheduled, assigned, nOps>>

\* case "delete account", third await: RemainingMessage.deleteMany
CmdDeleteRemainingStep(r) ==
    /\ req[r].pc = "cmd_delete_remaining"
    /\ remaining' = DeleteRemainingOf(req[r].phone)
    /\ assigned' = [assigned EXCEPT ![req[r].phone] = <<>>]
    /\ req' = [req EXCEPT ![r] = Replied(@, Reply("account_deleted", <<>>))]
    /\ UNCHANGED <<users, messages, now, pay, timers, scheduled, nOps>>

\* CmdMoreStep that reads the content without testing for null
CmdMoreStepUnguarded(r) ==
    /\ req[r].pc = "cmd_more"
    /\ \E remainingMsg \in GetLatestRemainingMessage(req[r].phone) :
         req' = [req EXCEPT ![r] =
            IF remainingMsg # NoDoc
            THEN Replied(@, Reply("more", remainingMsg.content))
            ELSE Thrown(@)]
    /\ UNCHANGED <<users, messages, remaining, now, pay, timers, scheduled, assigned, nOps>>

\* case "more"
CmdMoreStep(r) ==
    /\ req[r].pc = "cmd_more"
    /\ \E remainingMsg \in GetLatestRemainingMessage(req[r].phone) :
         req' = [req EXCEPT ![r] =
            IF remainingMsg # NoDoc
            THEN Replied(@, Reply("more", remainingMsg.content))
            ELSE Replied(@, Reply("nothing_pending", <<>>))]
    /\ UNCHANGED <<users, messages, remaining, now, pay, timers, scheduled, assigned, nOps>>

(***************************************************************************)
(* manageUserCredits                                                       *)
(***************************************************************************)
\* User.findOne, then the decision on the snapshot it returned
FindUserStep(r) ==
    /\ req[r].pc = "find_user"
    /\ LET user == users[req[r].phone]
       IN req' = [req EXCEPT ![r] =
            IF user = NoUser THEN [@ EXCEPT !.pc = "create_user"]
            ELSE IF IsBlocked(user)
                 THEN Replied(@, Reply("blocked", <<>>))
                 ELSE [@ EXCEPT !.pc = "save_user",
                                !.user = ConsumeCredit(user)]]
    /\ UNCHANGED <<users, messages, remaining, now, pay, timers, scheduled, assigned, nOps>>

\* User.create for a new identifier; phNo is unique, so the insert is
\* rejected when a document for it exists by now
CreateUserStep(r) ==
    /\ req[r].pc = "create_user"
    /\ IF users[req[r].phone] # NoUser \/ ~UserValid(NewUser)
       THEN /\ req' = [req EXCEPT ![r] = Thrown(@)]
            /\ UNCHANGED users
       ELSE /\ users' = [users EXCEPT ![req[r].phone] = NewUser]
            /\ req' = [req EXCEPT ![r].pc = "save_user_turn",
                                  ![r].user = NewUser]
    /\ UNCHANGED <<messages, remaining, now, pay, timers, scheduled, assigned, nOps>>

\* SaveUserStep that tests and decrements the stored balance in one write
SaveUserStepIsolated(r) ==
    /\ req[r].pc = "save_user"
    /\ LET stored == users[req[r].phone]
       IN IF stored = NoUser
          THEN /\ req' = [req EXCEPT ![r] = Thrown(@)]
               /\ UNCHANGED users
          ELSE IF IsBlocked(stored)
          THEN /\ req' = [req EXCEPT ![r] = Replied(@, Reply("blocked", <<>>))]
               /\ UNCHANGED users
          ELSE /\ users' = [users EXCEPT ![req[r].phone] =
                               ConsumeCredit(stored)]
               /\ req' = [req EXCEPT ![r].pc = "save_user_turn",
                                     ![r].user = ConsumeCredit(stored)]
    /\ UNCHANGED <<messages, remaining, now, pay, timers, scheduled, assigned, nOps>>

\* SaveUserStep that decrements the stored balance in place ($inc, which
\* runs no validator)
SaveUserStepDecrement(r) ==
    /\ req[r].pc = "save_user"
    /\ IF users[req[r].phone] = NoUser
       THEN /\ req' = [req EXCEPT ![r] = Thrown(@)]
            /\ UNCHANGED users
       ELSE /\ users' = [users EXCEPT ![req[r].phone] =
                            [@ EXCEPT !.blance = @ - 1, !.smsSent = @ + 1]]
            /\ req' = [req EXCEPT ![r].pc = "save_user_turn"]
    /\ UNCHANGED <<messages, remaining, now, pay, timers, scheduled, assigned, nOps>>

\* user.save() after consumeCredit: writes the modified paths of the
\* local document; a document deleted meanwhile cannot be saved
SaveUserStep(r) ==
    /\ req[r].pc = "save_user"
    /\ IF users[req[r].phone] = NoUser \/ ~UserValid(req[r].user)
       THEN /\ req' = [req EXCEPT ![r] = Thrown(@)]
            /\ UNCHANGED users
       ELSE /\ users' = [users EXCEPT ![req[r].phone] =
                            [@ EXCEPT !.blance = req[r].user.blance,
                                      !.smsSent = req[r].user.smsSent]]
            /\ req' = [req EXCEPT ![r].pc = "save_user_turn"]
    /\ UNCHANGED <<messages, remaining, now, pay, timers, scheduled, assigned, nOps>>

(***************************************************************************)
(* AIRouterService                                                         *)
(***************************************************************************)
ComplexIndicators ==
    { <<"e", "x", "p", "l", "a", "i", "n">>,
      <<"h", "o", "w", " ", "t", "o">>,
      <<"w", "h", "a", "t", " ", "i", "s">>,
      <<"w", "h", "y", " ", "d", "o", "e", "s">>,
      <<"a", "n", "a", "l", "y", "z", "e">>,
      <<"c", "o", "m", "p", "a", "r", "e">>,
      <<"d", "e", "s", "c", "r", "i", "b", "e">>,
      <<"e", "l", "a", "b", "o", "r", "a", "t", "e">>,
      <<"d", "e", "t", "a", "i", "l", "e", "d">>,
      <<"c", "o", "m", "p", "r", "e", "h", "e", "n", "s", "i", "v", "e">> }

TechnicalTerms ==
    { <<"a", "p", "i">>,
      <<"d", "a", "t", "a", "b", "a", "s", "e">>,
      <<"a", "l", "g", "o", "r", "i", "t", "h", "m">>,
      <<"f", "r", "a", "m", "e", "w", "o", "r", "k">>,
      <<"p", "r", "o", "t", "o", "c", "o", "l">>,
      <<"a", "r", "c", "h", "i", "t", "e", "c", "t", "u", "r", "e">>,
      <<"i", "n", "t", "e", "g", "r", "a", "t", "i", "o", "n">>,
      <<"d", "e", "p", "l", "o", "y", "m", "e", "n", "t">>,
      <<"o", "p", "t", "i", "m", "i", "z", "a", "t", "i", "o", "n">>,
      <<"s", "c", "a", "l", "a", "b", "i", "l", "i", "t", "y">> }

IsComplexMessage(message) ==
    \E indicator \in ComplexIndicators :
        Includes(ToLowerCase(message), indicator)

HasTechnicalTerms(message) ==
    \E term \in TechnicalTerms : Includes(ToLowerCase(message), term)

Providers == {"grok", "openai"}
DefaultProvider == "grok"
\* SelectProvider that sends complex and technical messages, long
\* conversations and long messages to the secondary provider
SelectProviderByContent(message, conversationHistory, options) ==
    IF options.provider \in Providers THEN options.provider
    ELSE IF \/ IsComplexMessage(message)
            \/ HasTechnicalTerms(message)
            \/ Len(conversationHistory) > 5
         THEN "openai"
         ELSE IF Len(message) > 500 THEN "openai" ELSE DefaultProvider

SelectProvider(message, conversationHistory, options) ==
    IF options.provider \in Providers THEN options.provider
    ELSE IF \/ IsComplexMessage(message)
            \/ HasTechnicalTerms(message)
            \/ Len(conversationHistory) > 5
         THEN "grok"
         ELSE IF Len(message) > 500 THEN "grok" ELSE DefaultProvider

(***************************************************************************)
(* handleLongResponse and sendNotificationMessages, the synchronous parts  *)
(***************************************************************************)
TruncatedResponse(response) == Substring(response, 0, AllowedLength)

RemainingText(response) == SubstringFrom(response, AllowedLength)

NeedsSplit(response) == ~(Len(response) <= MaxSmsLength)

\* the text handleLongResponse returns
FinalResponse(response) ==
    IF NeedsSplit(response)
    THEN TruncatedResponse(response) \o ContinuationMarker
    ELSE response

\* balance at which the low-balance warning is sent
LowBalanceAt == 10
\* balance under which the excess-usage message is sent
ExcessBelow == 2

\* the timers sendNotificationMessages sets for the snapshot `user`
Notifications(p, user) ==
    (IF user.smsSent = 1 THEN <<[phone |-> p, kind |-> "welcome"]>>
     ELSE <<>>)
    \o (IF user.blance = LowBalanceAt
        THEN <<[phone |-> p, kind |-> "low_balance"]>> ELSE <<>>)
    \o (IF user.blance < ExcessBelow
        THEN <<[phone |-> p, kind |-> "excess_usage"]>> ELSE <<>>)

\* the history of the setTimeout calls of sendNotificationMessages
Recorded(p, user) ==
    LET set == Notifications(p, user)
    IN [scheduled EXCEPT ![p] = @ \o [i \in 1..Len(set) |-> set[i].kind]]

\* processUserMessage after handleLongResponse returned: the reply is
\* written, then the notifications are scheduled
Finished(q) == Replied(q, Reply("ai", FinalResponse(q.aiResponse)))

(***************************************************************************)
(* generateAIResponse                                                      *)
(***************************************************************************)
\* SaveUserTurnStep that goes on without the write
SaveUserTurnStepSkipped(r) ==
    /\ req[r].pc = "save_user_turn"
    /\ req' = [req EXCEPT ![r].pc = "get_history"]
    /\ UNCHANGED <<users, messages, remaining, now, pay, timers, scheduled, assigned, nOps>>

\* Message.create for the user's turn
SaveUserTurnStep(r) ==
    /\ req[r].pc = "save_user_turn"
    /\ IF MessageValid(req[r].text)
       THEN /\ messages' = [messages EXCEPT ![req[r].phone] =
                              Append(@, MessageDoc("user", req[r].text))]
            /\ req' = [req EXCEPT ![r].pc = "get_history"]
       ELSE /\ req' = [req EXCEPT ![r] = Thrown(@)]
            /\ UNCHANGED messages
    /\ UNCHANGED <<users, remaining, now, pay, timers, scheduled, assigned, nOps>>

\* Message.getConversationHistory(phoneNumber, 10), projected to
\* role and content
GetHistoryStep(r) ==
    /\ req[r].pc = "get_history"
    /\ LET conversationHistory ==
              GetConversationHistory(req[r].phone, HistoryLimit)
           formattedHistory ==
              [i \in 1..Len(conversationHistory) |->
                  [role |-> conversationHistory[i].role,
                   content |-> conversationHistory[i].content]]
       IN req' = [req EXCEPT ![r].pc = "provider",
                             ![r].history = formattedHistory]
    /\ UNCHANGED <<users, messages, remaining, now, pay, timers, scheduled, assigned, nOps>>

\* the content of the system message getConversationalResponse sends first
\* (its long dash is written as a hyphen)
SystemContent ==
    <<"Y", "o", "u", " ", "a", "r", "e", " ", "a", " ", "h", "e", "l", "p",
      "f", "u", "l", " ", "a", "s", "s", "i", "s", "t", "a", "n", "t", ".",
      " ", "A", "l", "w", "a", "y", "s", " ", "r", "e", "p", "l", "y", " ",
      "u", "s", "i", "n", "g", " ", "p", "l", "a", "i", "n", " ", "t", "e",
      "x", "t", " ", "o", "n", "l", "y", " ", "-", " ", "n", "o", " ", "M",
      "a", "r", "k", "d", "o", "w", "n", ",", " ", "n", "o", " ", "a", "s",
      "t", "e", "r", "i", "s", "k", "s", ",", " ", "n", "o", " ", "b", "u",
      "l", "l", "e", "t", " ", "p", "o", "i", "n", "t", "s", ",", " ", "a",
      "n", "d", " ", "n", "o", " ", "s", "p", "e", "c", "i", "a", "l", " ",
      "f", "o", "r", "m", "a", "t", "t", "i", "n", "g", ".", " ", "K", "e",
      "e", "p", " ", "y", "o", "u", "r", " ", "r", "e", "s", "p", "o", "n",
      "s", "e", "s", " ", "u", "n", "d", "e", "r", " ", "1", "6", "0", "0",
      " ", "c", "h", "a", "r", "a", "c", "t", "e", "r", "s", ".", " ", "W",
      "r", "i", "t", "e", " ", "c", "l", "e", "a", "r", "l", "y", " ", "a",
      "n", "d", " ", "d", "i", "r", "e", "c", "t", "l", "y", ".">>

\* the messages getConversationalResponse sends to the provider: the system
\* message, the history it was given, and the user message
ConversationalMessages(userMessage, conversationHistory) ==
    << [role |-> "system", content |-> SystemContent] >>
        \o conversationHistory
        \o << [role |-> "user", content |-> userMessage] >>

\* routeMessage, the try block: the selected provider is called once
\* ("openai" throws before any call); a failure enters the catch block
ProviderStep(r) ==
    /\ req[r].pc = "provider"
    /\ now' = now + MinLatency
    /\ LET provider == SelectProvider(req[r].text, req[r].history,
                                      req[r].options)
       IN IF provider = "grok"
          THEN \/ \E response \in ProviderReplies :
                    req' = [req EXCEPT ![r].pc = "save_assistant_turn",
                                       ![r].calls = @ + 1,
                                       ![r].aiResponse = response]
               \/ req' = [req EXCEPT ![r].pc = "fallback",
                                     ![r].calls = @ + 1]
          ELSE req' = [req EXCEPT ![r].pc = "fallback"]
    /\ UNCHANGED <<users, messages, remaining, pay, timers, scheduled, assigned, nOps>>

\* FallbackStep that calls again when the fallback call fails
FallbackStepRetrying(r) ==
    /\ req[r].pc = "fallback"
    /\ \/ \E response \in ProviderReplies :
            req' = [req EXCEPT ![r].pc = "save_assistant_turn",
                               ![r].calls = @ + 1,
                               ![r].aiResponse = response]
       \/ req' = [req EXCEPT ![r].calls = @ + 1]
    /\ UNCHANGED <<users, messages, remaining, now, pay, timers, scheduled, assigned, nOps>>

\* FallbackStep that gives the credit back when the fallback call fails
FallbackStepRefunding(r) ==
    /\ req[r].pc = "fallback"
    /\ \/ /\ \E response \in ProviderReplies :
                 req' = [req EXCEPT ![r].pc = "save_assistant_turn",
                                    ![r].calls = @ + 1,
                                    ![r].aiResponse = response]
          /\ UNCHANGED users
       \/ /\ req' = [req EXCEPT ![r] = Thrown([@ EXCEPT !.calls = @ + 1])]
          /\ users' = [users EXCEPT ![req[r].phone] =
                          IF @ = NoUser THEN @
                          ELSE [@ EXCEPT !.blance = @ + 1, !.smsSent = @ - 1]]
    /\ UNCHANGED <<messages, remaining, now, pay, timers, scheduled, assigned, nOps>>

\* routeMessage, the catch block: one more call of
\* grokService.getConversationalResponse; its failure is rethrown as
\* "All AI services are currently unavailable"
FallbackStep(r) ==
    /\ req[r].pc = "fallback"
    /\ \/ \E response \in ProviderReplies :
            req' = [req EXCEPT ![r].pc = "save_assistant_turn",
                               ![r].calls = @ + 1,
                               ![r].aiResponse = response]
       \/ req' = [req EXCEPT ![r] = Thrown([@ EXCEPT !.calls = @ + 1])]
    /\ UNCHANGED <<users, messages, remaining, now, pay, timers, scheduled, assigned, nOps>>

\* SaveAssistantTurnStep that leaves the turn of a long reply unwritten
\* until the reply has been split
SaveAssistantTurnStepDeferred(r) ==
    /\ req[r].pc = "save_assistant_turn"
    /\ IF ~MessageValid(req[r].aiResponse)
       THEN /\ req' = [req EXCEPT ![r] = Thrown(@)]
            /\ UNCHANGED <<messages, timers, scheduled, assigned>>
       ELSE IF NeedsSplit(req[r].aiResponse)
            THEN /\ req' = [req EXCEPT ![r].pc = "find_latest_index"]
                 /\ UNCHANGED <<messages, timers, scheduled, assigned>>
            ELSE /\ messages' = [messages EXCEPT ![req[r].phone] =
                        Append(@, MessageDoc("assistant", req[r].aiResponse))]
                 /\ req' = [req EXCEPT ![r] = Finished(@)]
                 /\ timers' = timers \o
                              Notifications(req[r].phone, req[r].user)
                 /\ scheduled' = Recorded(req[r].phone, req[r].user)
    /\ UNCHANGED <<users, remaining, now, pay, assigned, nOps>>

\* Message.create for the assistant's turn, then handleLongResponse up to
\* its await: a reply within the limit is sent as it is
SaveAssistantTurnStep(r) ==
    /\ req[r].pc = "save_assistant_turn"
    /\ IF ~MessageValid(req[r].aiResponse)
       THEN /\ req' = [req EXCEPT ![r] = Thrown(@)]
            /\ UNCHANGED <<messages, timers, scheduled, assigned>>
       ELSE /\ messages' = [messages EXCEPT ![req[r].phone] =
                   Append(@, MessageDoc("assistant", req[r].aiResponse))]
            /\ IF NeedsSplit(req[r].aiResponse)
               THEN /\ req' = [req EXCEPT ![r].pc = "find_latest_index"]
                    /\ UNCHANGED <<timers, scheduled, assigned>>
               ELSE /\ req' = [req EXCEPT ![r] = Finished(@)]
                    /\ timers' = timers \o
                                 Notifications(req[r].phone, req[r].user)
                    /\ scheduled' = Recorded(req[r].phone, req[r].user)
    /\ UNCHANGED <<users, remaining, now, pay, assigned, nOps>>

(***************************************************************************)
(* createRemainingMessage                                                  *)
(***************************************************************************)
FindLatestIndexStep(r) ==
    /\ req[r].pc = "find_latest_index"
    /\ req' = [req EXCEPT ![r].pc = "create_remaining",
                          ![r].latestIndex = LatestMessageIndex(req[r].phone)]
    /\ UNCHANGED <<users, messages, remaining, now, pay, timers, scheduled, assigned, nOps>>

\* RemainingMessage.create, then the rest of processUserMessage
CreateRemainingStep(r) ==
    /\ req[r].pc = "create_remaining"
    /\ LET remainingText == RemainingText(req[r].aiResponse)
       IN IF RemainingValid(remainingText)
          THEN /\ remaining' = [remaining EXCEPT ![req[r].phone] =
                    Append(@, RemainingDoc(remainingText,
                                           req[r].latestIndex))]
               /\ req' = [req EXCEPT ![r] = Finished(@)]
               /\ timers' = timers \o
                            Notifications(req[r].phone, req[r].user)
               /\ scheduled' = Recorded(req[r].phone, req[r].user)
               /\ assigned' = [assigned EXCEPT ![req[r].phone] =
                    Append(@, RemainingDoc(remainingText,
                                           req[r].latestIndex).messageIndex)]
          ELSE /\ req' = [req EXCEPT ![r] = Thrown(@)]
               /\ UNCHANGED <<remaining, timers, scheduled, assigned>>
    /\ UNCHANGED <<users, messages, now, pay, nOps>>

(***************************************************************************)
(* Deferred notifications: the setTimeout callbacks.  All timers have the  *)
(* same delay, so they run in the order they were set; sendSMS may fail,   *)
(* which is logged and changes nothing.                                    *)
(***************************************************************************)
\* TimerFire that sets the timer again when the send has failed
TimerFireRetrying ==
    /\ timers # <<>>
    /\ \/ timers' = Tail(timers)
       \/ timers' = Append(Tail(timers), Head(timers))
    /\ UNCHANGED <<users, messages, remaining, now, req, pay, scheduled, assigned, nOps>>

TimerFire ==
    /\ timers # <<>>
    /\ timers' = Tail(timers)
    /\ UNCHANGED <<users, messages, remaining, now, req, pay, scheduled, assigned, nOps>>

(***************************************************************************)
(* PaymentController.processPayment and addCreditsToUser                   *)
(***************************************************************************)
PayDone(status) == [pay EXCEPT !.pc = "done", !.status = status]

\* PayRejected without the sign test
PayRejectedNoSign(credit) == credit = 0

\* the checks of processPayment on req.body.credit: !credit, credit <= 0
PayRejected(credit) == credit = 0 \/ credit <= 0

\* processPayment up to addCreditsToUser's first await: the field checks
\* (phNo and totalAmount are present and valid), then the payment intent,
\* which has succeeded for the payments the model sends; the confirmation
\* SMS that ends addCreditsToUser changes nothing, sent or not

PayReceive(p, credit) ==
    /\ ~PayInFlight
    /\ nOps < MaxOps
    /\ nOps' = nOps + 1
    /\ pay' = IF PayRejected(credit)
              THEN [IdlePay EXCEPT !.pc = "done", !.status = 400]
              ELSE [IdlePay EXCEPT !.pc = "pay_find", !.phone = p,
                                   !.credits = credit]
    /\ UNCHANGED <<users, messages, remaining, now, req, timers, scheduled, assigned>>

\* User.findOne
PayFindStep ==
    /\ pay.pc = "pay_find"
    /\ pay' = [pay EXCEPT !.user = users[pay.phone],
                          !.pc = IF users[pay.phone] # NoUser
                                 THEN "pay_update" ELSE "pay_create"]
    /\ UNCHANGED <<users, messages, remaining, now, req, timers, scheduled, assigned, nOps>>

\* PayUpdateStep that stores the purchased amount as the balance
PayUpdateStepOverwrite ==
    /\ pay.pc = "pay_update"
    /\ LET totalCredits == pay.credits
       IN IF users[pay.phone] = NoUser
          THEN /\ pay' = PayDone(500)
               /\ UNCHANGED <<users, scheduled, assigned>>
          ELSE /\ users' = [users EXCEPT ![pay.phone] =
                              [@ EXCEPT !.blance = totalCredits,
                                        !.smsSent = 0]]
               /\ scheduled' = [scheduled EXCEPT ![pay.phone] =
                                  Append(@, "credit")]
               /\ pay' = PayDone(200)
    /\ UNCHANGED <<messages, remaining, now, req, timers, assigned, nOps>>

\* User.findOneAndUpdate with the total computed from the snapshot; it
\* yields null when the document is gone, and the log line that follows
\* throws
PayUpdateStep ==
    /\ pay.pc = "pay_update"
    /\ LET totalCredits == pay.user.blance + pay.credits
       IN IF users[pay.phone] = NoUser
          THEN /\ pay' = PayDone(500)
               /\ UNCHANGED <<users, scheduled, assigned>>
          ELSE /\ users' = [users EXCEPT ![pay.phone] =
                              [@ EXCEPT !.blance = totalCredits,
                                        !.smsSent = 0]]
               /\ scheduled' = [scheduled EXCEPT ![pay.phone] =
                                  Append(@, "credit")]
               /\ pay' = PayDone(200)
    /\ UNCHANGED <<messages, remaining, now, req, timers, assigned, nOps>>

\* User.create({phNo, blance: credits, smsSent: 0})
PayCreateStep ==
    /\ pay.pc = "pay_create"
    /\ LET user == [blance |-> pay.credits, smsSent |-> 0,
                    isActive |-> TRUE]
       IN IF users[pay.phone] # NoUser \/ ~UserValid(user)
          THEN /\ pay' = PayDone(500)
               /\ UNCHANGED <<users, scheduled, assigned>>
          ELSE /\ users' = [users EXCEPT ![pay.phone] = user]
               /\ scheduled' = [scheduled EXCEPT ![pay.phone] =
                                  Append(@, "credit")]
               /\ pay' = PayDone(200)
    /\ UNCHANGED <<messages, remaining, now, req, timers, assigned, nOps>>

\* an awaited database operation of addCreditsToUser rejects
PayFault ==
    /\ PayInFlight
    /\ nOps < MaxOps
    /\ nOps' = nOps + 1
    /\ pay' = PayDone(500)
    /\ UNCHANGED <<users, messages, remaining, now, req, timers, scheduled, assigned>>

(***************************************************************************)
(* The clock and the expiry sweep                                          *)
(***************************************************************************)
\* time that passes between two requests: one millisecond short of the
\* TTL, the TTL, or one millisecond more
TickSteps == {TtlMs - 1, TtlMs, TtlMs + 1}

Tick(d) ==
    /\ nOps < MaxOps
    /\ nOps' = nOps + 1
    /\ now' = now + d
    /\ UNCHANGED <<users, messages, remaining, req, pay, timers, scheduled, assigned>>

\* RemainingMessage.cleanupExpired, on whatever schedule
CleanupExpired ==
    /\ CleanupExpiredResult # remaining
    /\ remaining' = CleanupExpiredResult
    /\ UNCHANGED <<users, messages, now, req, pay, timers, scheduled, assigned, nOps>>

(***************************************************************************)
(* Specification: the requests are served one at a time.  The timer        *)
(* callbacks read and write nothing of the state, so they commute with     *)
(* every other step; they are run before the next event is taken up.       *)
(***************************************************************************)
Quiescent == NoneInFlight /\ timers = <<>>

Step(r) ==
    \/ DbFault(r)
    \/ CmdAccountStep(r)
    \/ CmdDeleteHistoryStep(r)
    \/ CmdDeleteUserStep(r)
    \/ CmdDeleteMessagesStep(r)
    \/ CmdDeleteRemainingStep(r)
    \/ CmdMoreStep(r)
    \/ FindUserStep(r)
    \/ CreateUserStep(r)
    \/ SaveUserStep(r)
    \/ SaveUserTurnStep(r)
    \/ GetHistoryStep(r)
    \/ ProviderStep(r)
    \/ FallbackStep(r)
    \/ SaveAssistantTurnStep(r)
    \/ FindLatestIndexStep(r)
    \/ CreateRemainingStep(r)

PayStep == PayFindStep \/ PayUpdateStep \/ PayCreateStep \/ PayFault

Next ==
    \/ \E r \in Reqs, p \in Phones, m \in Inbound :
          Quiescent /\ Receive(r, p, m.body, m.media, m.contentType)
    \/ \E p \in Phones, credit \in CreditAmounts :
          Quiescent /\ PayReceive(p, credit)
    \/ \E r \in Reqs : Step(r)
    \/ PayStep
    \/ TimerFire
    \/ \E d \in TickSteps : Quiescent /\ Tick(d)
    \/ Quiescent /\ CleanupExpired

Spec == Init /\ [][Next]_vars

(***************************************************************************)
(* Specification with overlapping requests: a request or a payment is      *)
(* taken up while others are in progress, their awaited steps interleave,  *)
(* and the sweep runs at any point.                                        *)
(***************************************************************************)
\* the messages sent while others are in progress
OverlapInbound ==
    {[body |-> b, media |-> "none", contentType |-> ""] :
        b \in Bodies \ { <<"S", "T", "O", "P">>, <<" ">> }}

\* the account the overlapping requests and payments are for
OverlapPhones == {"p2"}

OverlapNext ==
    \/ \E r \in Reqs, p \in OverlapPhones, m \in OverlapInbound :
          timers = <<>> /\ Receive(r, p, m.body, m.media, m.contentType)
    \/ \E p \in OverlapPhones, credit \in CreditAmounts :
          timers = <<>> /\ PayReceive(p, credit)
    \/ \E r \in Reqs : Step(r)
    \/ PayStep
    \/ TimerFire
    \/ \E d \in TickSteps : Quiescent /\ Tick(d)
    \/ CleanupExpired

SpecOverlap == Init /\ [][OverlapNext]_vars

(***************************************************************************)
(* routeMessage called on its own, with every kind of message, history and *)
(* options                                                                 *)
(***************************************************************************)
\* selectProvider tests messageLength > LongMessageOver
LongMessageOver == 500

\* a plain message, one with a complex-intent indicator, one with a
\* technical term, and one over the length selectProvider tests
RouterMessages ==
    { <<"h", "i">>,
      <<"E", "x", "p", "l", "a", "i", "n", " ", "i", "t">>,
      <<"a", "n", " ", "A", "P", "I">>,
      Fill(LongMessageOver + 1, "a") }

\* histories of no turn, five turns and six turns
RouterHistories ==
    {[i \in 1..n |-> [role |-> SeedTurns[i].role,
                       content |-> SeedTurns[i].content]] : n \in {0, 5, 6}}

\* no override, an override for each provider, one for an unknown name
RouterOptions ==
    {NoOptions, [provider |-> "grok"], [provider |-> "openai"],
     [provider |-> "gemini"]}

InitRouter ==
    /\ users = [p \in Phones |-> IF p = "p2" THEN SeedAccount ELSE NoUser]
    /\ messages = [p \in Phones |-> IF p = "p2" THEN SeedTurns ELSE <<>>]
    /\ remaining = [p \in Phones |-> <<>>]
    /\ now = 0
    /\ \E message \in RouterMessages, history \in RouterHistories,
          options \in RouterOptions :
          req = [r \in Reqs |->
                   IF r = 1
                   THEN [IdleReq EXCEPT !.pc = "provider", !.phone = "p2",
                                        !.text = message,
                                        !.history = history,
                                        !.options = options]
                   ELSE IdleReq]
    /\ pay = IdlePay
    /\ timers = <<>>
    /\ scheduled = [p \in Phones |-> <<>>]
    /\ assigned = [p \in Phones |-> <<>>]
    /\ nOps = 0

RouterNext ==
    \E r \in Reqs :
        \/ ProviderStep(r)
        \/ FallbackStep(r)

SpecRouter == InitRouter /\ [][RouterNext]_vars

(***************************************************************************)
(* handleLongResponse as a function of the reply and of the configured     *)
(* maxSmsLength, applied to replies around the limit under every limit     *)
(* from 1 to a few characters over the marker's length                     *)
(***************************************************************************)
\* the text handleLongResponse returns under the limit maxSmsLength
FinalizedText(response, maxSmsLength) ==
    IF Len(response) <= maxSmsLength
    THEN response
    ELSE LET allowedLength == maxSmsLength - SuffixLength
             truncatedResponse == Substring(response, 0, allowedLength)
         IN truncatedResponse \o ContinuationMarker

\* config.app.maxSmsLength: parseInt(process.env.MAX_SMS_LENGTH) || 1600
FinalizeLimits == 1..(MaxSmsLength + 4)

FinalizeReplies == {Fill(n, "x") : n \in 0..(MaxSmsLength + 5)}

InitFinalize ==
    /\ users = [p \in Phones |-> IF p = "p2" THEN SeedAccount ELSE NoUser]
    /\ messages = [p \in Phones |-> IF p = "p2" THEN SeedTurns ELSE <<>>]
    /\ remaining = [p \in Phones |-> <<>>]
    /\ now = 0
    /\ \E response \in FinalizeReplies, maxSmsLength \in FinalizeLimits :
          req = [r \in Reqs |->
                   IF r = 1
                   THEN [IdleReq EXCEPT !.pc = "finalize", !.phone = "p2",
                                        !.aiResponse = response,
                                        !.maxSmsLength = maxSmsLength]
                   ELSE IdleReq]
    /\ pay = IdlePay
    /\ timers = <<>>
    /\ scheduled = [p \in Phones |-> <<>>]
    /\ assigned = [p \in Phones |-> <<>>]
    /\ nOps = 0

\* the text handleLongResponse stores as the continuation under the limit
\* maxSmsLength
FinalizedRemainder(response, maxSmsLength) ==
    SubstringFrom(response, maxSmsLength - SuffixLength)

\* handleLongResponse with its two awaited calls of createRemainingMessage,
\* taken in one step as no other request runs beside it; then the text is
\* sent
FinalizeStep(r) ==
    /\ req[r].pc = "finalize"
    /\ LET response == req[r].aiResponse
           maxSmsLength == req[r].maxSmsLength
           remainingText == FinalizedRemainder(response, maxSmsLength)
           doc == RemainingDoc(remainingText, LatestMessageIndex(req[r].phone))
           sent == Replied(req[r], Reply("ai", FinalizedText(response,
                                                             maxSmsLength)))
       IN IF Len(response) <= maxSmsLength
          THEN /\ req' = [req EXCEPT ![r] = sent]
               /\ UNCHANGED <<remaining, assigned>>
          ELSE IF RemainingValid(remainingText)
          THEN /\ remaining' = [remaining EXCEPT ![req[r].phone] =
                                   Append(@, doc)]
               /\ assigned' = [assigned EXCEPT ![req[r].phone] =
                                  Append(@, doc.messageIndex)]
               /\ req' = [req EXCEPT ![r] = sent]
          ELSE /\ req' = [req EXCEPT ![r] = Thrown(@)]
               /\ UNCHANGED <<remaining, assigned>>
    /\ UNCHANGED <<users, messages, now, pay, timers, scheduled, nOps>>

FinalizeNext == \E r \in Reqs : FinalizeStep(r)

SpecFinalize == InitFinalize /\ [][FinalizeNext]_vars

(***************************************************************************)
(* Properties                                                              *)
(***************************************************************************)
LastReply(q) == q.replies[Len(q.replies)]

\* the step of request r that is taken at `pc` and is no storage failure
Took(r, pc) == req[r].pc = pc /\ req'[r] # req[r] /\ nOps' = nOps

\* C1: with the requests served one at a time, the credit balance of every
\* account is >= 0 in every reachable state
C1_BalanceNonNegative ==
    \A p \in Phones : users[p] # NoUser => users[p].blance >= 0

\* an account at balance 0 was refused a message, and a payment was credited
C1_Witness ==
    /\ req[1].pc = "done"
    /\ req[1].replies = <<Reply("blocked", <<>>)>>
    /\ users[req[1].phone].blance = 0
    /\ pay.pc = "done" /\ pay.status = 200

C3_BlockedChangesNothing ==
    [][\A r \in Reqs :
          (/\ Took(r, "find_user")
           /\ users[req[r].phone] # NoUser
           /\ users[req[r].phone].blance <= 0)
             => /\ req'[r].pc = "done"
                /\ req'[r].replies = <<Reply("blocked", <<>>)>>
                /\ req'[r].calls = 0
                /\ UNCHANGED <<users, messages, remaining, timers>>]_vars

\* the deactivated account, at balance 0, was refused
C3_Witness ==
    /\ req[1].pc = "done"
    /\ req[1].replies = <<Reply("blocked", <<>>)>>
    /\ users[req[1].phone].blance = 0
    /\ ~users[req[1].phone].isActive

\* C4: admit on an existing account with balance b > 0 and usage u stores
\* b - 1 and u + 1, and the snapshot the request goes on with (the one the
\* notification step reads) carries the stored values
C4_AdmitDecrements ==
    [][\A r \in Reqs :
          /\ (/\ Took(r, "find_user")
              /\ users[req[r].phone] # NoUser
              /\ users[req[r].phone].blance > 0)
                => req'[r].pc = "save_user" /\ users' = users
          /\ Took(r, "save_user")
                => /\ users'[req[r].phone].blance
                        = users[req[r].phone].blance - 1
                   /\ users'[req[r].phone].smsSent
                        = users[req[r].phone].smsSent + 1
                   /\ req'[r].pc = "save_user_turn"
                   /\ req'[r].user = users'[req[r].phone]]_vars

\* the seeded account was admitted: balance 1 -> 0, usage 3 -> 4
C4_Witness ==
    /\ req[1].pc = "save_user_turn"
    /\ req[1].phone = "p2"
    /\ users["p2"].blance = 0
    /\ users["p2"].smsSent = 4
    /\ nOps = 1

\* C5: finalize returns a reply of at most maxLength characters unchanged
\* and creates no continuation; a longer reply goes out as its first
\* maxLength - 34 characters followed by the marker, and the lookup of
\* `more` right afterwards yields exactly reply[maxLength - 34 :]
C5_FinalizeRoundTrip ==
    [][\A r \in Reqs :
          LET reply == req[r].aiResponse
              cut == MaxSmsLength - 34
          IN /\ (Took(r, "save_assistant_turn") /\ Len(reply) <= MaxSmsLength)
                   => /\ req'[r].pc = "done"
                      /\ LastReply(req'[r]) = Reply("ai", reply)
                      /\ remaining' = remaining
             /\ Took(r, "create_remaining")
                   => /\ req'[r].pc = "done"
                      /\ LastReply(req'[r])
                           = Reply("ai", SubSeq(reply, 1, cut)
                                            \o ContinuationMarker)
                      /\ \A d \in GetLatestRemainingMessage(req[r].phone)' :
                            /\ d # NoDoc
                            /\ d.content = SubSeq(reply, cut + 1, Len(reply))
       ]_vars

\* C6: when the provider call and the fallback call both fail, the request
\* ends with exactly one reply, the generic failure reply; the newest turn
\* of the account is the user's turn of this message, so no assistant turn
\* was written for it
C6_BothProvidersFail ==
    \A r \in Reqs :
        (req[r].pc = "done" /\ req[r].failedAt = "fallback")
          => /\ req[r].replies = <<Reply("error", <<>>)>>
             /\ messages[req[r].phone] # <<>>
             /\ messages[req[r].phone][Len(messages[req[r].phone])]
                  = [role |-> "user", content |-> req[r].text]

\* both calls failed for an account that already had turns
C6_Witness ==
    /\ req[1].pc = "done"
    /\ req[1].failedAt = "fallback"
    /\ Len(messages[req[1].phone]) > 1

\* C7: the router calls the selected provider once; it makes a second call,
\* the only retry, exactly when the first has failed; when the second fails
\* too the request ends with the aggregate failure; no step makes a third
C7_AtMostTwoCalls ==
    [][\A r \in Reqs :
          /\ req'[r].calls <= 2
          /\ Took(r, "provider")
                => /\ req'[r].calls = 1
                   /\ req'[r].pc \in {"save_assistant_turn", "fallback"}
          /\ Took(r, "fallback")
                => /\ req'[r].calls = 2
                   /\ \/ req'[r].pc = "save_assistant_turn"
                      \/ /\ req'[r].pc = "done"
                         /\ req'[r].failedAt = "fallback"
          /\ req[r].pc \notin {"provider", "fallback", "idle", "done"}
                => req'[r].calls = req[r].calls]_vars

\* the first call failed and the fallback call answered
C7_Witness ==
    /\ req[1].pc = "done"
    /\ req[1].failedAt = "none"
    /\ req[1].calls = 2
    /\ LastReply(req[1]).kind = "ai"

\* C8: when `delete account` completes, the identifier has no account, no
\* turn and no continuation and the confirmation is the reply; none of its
\* three deletions touches the records of another identifier
C8_DeleteAccount ==
    [][\A r \in Reqs :
          /\ Took(r, "cmd_delete_remaining")
                => /\ req'[r].pc = "done"
                   /\ req'[r].replies = <<Reply("account_deleted", <<>>)>>
                   /\ users'[req[r].phone] = NoUser
                   /\ messages'[req[r].phone] = <<>>
                   /\ remaining'[req[r].phone] = <<>>
          /\ (/\ req[r].pc \in {"cmd_delete_user", "cmd_delete_messages",
                                "cmd_delete_remaining"}
              /\ req'[r] # req[r])
                => \A q \in Phones \ {req[r].phone} :
                      /\ users'[q] = users[q]
                      /\ messages'[q] = messages[q]
                      /\ remaining'[q] = remaining[q]]_vars

\* the seeded account had a reply generated and was then deleted
C8_Witness ==
    /\ req[1].pc = "done"
    /\ req[1].replies = <<Reply("account_deleted", <<>>)>>
    /\ req[1].phone = "p2"
    /\ nOps = 2
    /\ now = MinLatency
    /\ users["p1"] = NoUser

\* C9: `delete account` leaves no later record kind behind when one of its
\* deletions fails: after a failed account deletion there are no turns and
\* no continuations of the identifier, after a failed turn deletion there
\* are no continuations
C9_DeleteDespiteFailure ==
    \A r \in Reqs :
        /\ (req[r].pc = "done" /\ req[r].failedAt = "cmd_delete_user")
              => /\ messages[req[r].phone] = <<>>
                 /\ remaining[req[r].phone] = <<>>
        /\ (req[r].pc = "done" /\ req[r].failedAt = "cmd_delete_messages")
              => remaining[req[r].phone] = <<>>

\* C10: `more` never returns a continuation whose expiresAt is not later
\* than the current time: the lookup yields none in any state, a content
\* `more` replies with is that of a stored continuation that has not
\* expired, and when every stored continuation of the account has expired
\* the reply is the 'nothing pending' message
C10_ExpiredNeverReturned ==
    [][/\ \A p \in Phones : \A d \in GetLatestRemainingMessage(p) :
             d = NoDoc \/ d.expiresAt > now
       /\ \A r \in Reqs :
             Took(r, "cmd_more")
               => LET stored == remaining[req[r].phone]
                      reply == LastReply(req'[r])
                  IN /\ reply.kind = "more"
                          => \E i \in 1..Len(stored) :
                                /\ stored[i].expiresAt > now
                                /\ stored[i].content = reply.text
                     /\ (\A i \in 1..Len(stored) : stored[i].expiresAt <= now)
                          => reply = Reply("nothing_pending", <<>>)]_vars

\* `more` found nothing although a continuation, expiring at this very
\* millisecond, is still stored
C10_Witness ==
    /\ req[1].pc = "done"
    /\ req[1].replies = <<Reply("nothing_pending", <<>>)>>
    /\ \E i \in 1..Len(remaining[req[1].phone]) :
          remaining[req[1].phone][i].expiresAt = now

\* C11: `more` for an identifier without a continuation that has not
\* expired, with or without an account, ends with the single reply
\* 'nothing pending' and not with the generic error reply
C11_MoreNothingPending ==
    [][\A r \in Reqs :
          (/\ Took(r, "cmd_more")
           /\ \A i \in 1..Len(remaining[req[r].phone]) :
                 remaining[req[r].phone][i].expiresAt <= now)
             => /\ req'[r].pc = "done"
                /\ req'[r].failedAt = "none"
                /\ req'[r].replies = <<Reply("nothing_pending", <<>>)>>
                /\ Reply("error", <<>>) \notin
                      {req'[r].replies[i] : i \in 1..Len(req'[r].replies)}
       ]_vars

\* an identifier that has no account and no continuation asked for more
C11_Witness ==
    /\ req[1].pc = "done"
    /\ req[1].replies = <<Reply("nothing_pending", <<>>)>>
    /\ users[req[1].phone] = NoUser
    /\ remaining[req[1].phone] = <<>>

\* C12: a request whose text is a recognized command, in any case and with
\* surrounding blanks, is never admitted and never calls a provider; no
\* step of it creates or changes an account (it may delete one), writes a
\* turn (it may delete turns) or schedules a notification; `stop` and
\* `account` change no stored record at all
C12_CommandsChargeNothing ==
    [][\A r \in Reqs :
          LET command == Trim(ToLowerCase(req'[r].text))
          IN (/\ req'[r] # req[r]
              /\ command \in {CmdStop, CmdAccount, CmdDeleteHistory,
                              CmdDeleteAccount, CmdMore})
                => /\ req'[r].calls = 0
                   /\ req'[r].user = NoUser
                   /\ \A p \in Phones :
                         /\ users'[p] = users[p] \/ users'[p] = NoUser
                         /\ messages'[p] = messages[p] \/ messages'[p] = <<>>
                   /\ timers' = timers
                   /\ command \in {CmdStop, CmdAccount}
                         => UNCHANGED <<users, messages, remaining>>]_vars

\* the seeded account spent its credit on a message and then asked for its
\* balance: the report shows 0 and the usage count is still 4
C12_Witness ==
    /\ req[1].pc = "done"
    /\ req[1].phone = "p2"
    /\ req[1].replies = <<Reply("account", <<0>>)>>
    /\ users["p2"] # NoUser
    /\ users["p2"].blance = 0
    /\ users["p2"].smsSent = 4

\* C13: a message of an account at balance 1 is admitted, brings the
\* stored balance to 0 and is answered with the generated text; from then
\* on every message of the account that is no command is refused without
\* a write or a provider call, and the balance of the account stays 0
\* until a payment of a positive amount raises it
C13_BlockedAfterLastCredit ==
    [][/\ \A r \in Reqs :
             LET account == users[req[r].phone]
             IN /\ (Took(r, "find_user") /\ account # NoUser
                                         /\ account.blance = 1)
                      => req'[r].pc = "save_user"
                /\ (Took(r, "save_user") /\ account.blance = 1)
                      => /\ users'[req[r].phone].blance = 0
                         /\ req'[r].pc = "save_user_turn"
                /\ (/\ req'[r].pc = "done"
                    /\ req'[r].failedAt = "none"
                    /\ req'[r].user # NoUser
                    /\ req'[r].user.blance = 0)
                      => /\ Len(req'[r].replies) = 1
                         /\ req'[r].replies[1].kind = "ai"
                /\ (Took(r, "find_user") /\ account # NoUser
                                         /\ account.blance = 0)
                      => /\ req'[r].pc = "done"
                         /\ req'[r].replies = <<Reply("blocked", <<>>)>>
                         /\ req'[r].calls = 0
                         /\ UNCHANGED <<users, messages, remaining>>
       /\ \A p \in Phones :
             (/\ users[p] # NoUser
              /\ users[p].blance = 0
              /\ users'[p] # NoUser
              /\ users'[p] # users[p])
                => /\ pay.pc = "pay_update"
                   /\ pay.phone = p
                   /\ pay.credits > 0
                   /\ users'[p].blance = pay.credits]_vars

\* the seeded account, at balance 1, got its answer (two more turns are
\* stored) and its next message was refused
C13_Witness ==
    /\ req[1].pc = "done"
    /\ req[1].phone = "p2"
    /\ req[1].replies = <<Reply("blocked", <<>>)>>
    /\ users["p2"] # NoUser
    /\ users["p2"].blance = 0
    /\ users["p2"].smsSent = 4
    /\ Len(messages["p2"]) = Len(SeedTurns) + 2
    /\ messages["p2"][Len(messages["p2"])].role = "assistant"

\* C14: the welcome notification is scheduled at most once for an account,
\* whatever admits, payments and failed generations follow its first
\* admitted message
C14_WelcomeOnce ==
    \A p \in Phones :
        Cardinality({i \in 1..Len(scheduled[p]) :
                        scheduled[p][i] = "welcome"}) <= 1

\* C15: between two top-ups of an account, while its balance only descends,
\* the excess-usage notification is scheduled for at most one message and
\* the low-balance notification for at most one
C15_OncePerCrossing ==
    \A p \in Phones :
        \A i, j \in 1..Len(scheduled[p]) :
            (/\ i < j
             /\ scheduled[p][i] = scheduled[p][j]
             /\ scheduled[p][i] \in {"excess_usage", "low_balance"})
               => \E k \in i..j : scheduled[p][k] = "credit"

\* C16: a payment of a positive amount for an existing account stores the
\* previous balance plus the amount and a usage count of 0; for an
\* identifier without an account it creates one with the amount as balance
\* and usage 0; a payment of an amount <= 0 is answered with status 400 and
\* no account is created or changed, and only a positive amount is ever
\* taken further
C16_Credit ==
    [][/\ (pay.pc = "pay_update" /\ pay' # pay /\ nOps' = nOps)
             => /\ users[pay.phone] # NoUser
                /\ users'[pay.phone].blance
                     = users[pay.phone].blance + pay.credits
                /\ users'[pay.phone].smsSent = 0
                /\ \A p \in Phones \ {pay.phone} : users'[p] = users[p]
                /\ pay'.status = 200
       /\ (pay.pc = "pay_create" /\ pay' # pay /\ nOps' = nOps)
             => /\ users[pay.phone] = NoUser
                /\ users'[pay.phone] # NoUser
                /\ users'[pay.phone].blance = pay.credits
                /\ users'[pay.phone].smsSent = 0
                /\ \A p \in Phones \ {pay.phone} : users'[p] = users[p]
                /\ pay'.status = 200
       /\ (pay'.pc \notin {"idle", "done"}) => pay'.credits > 0
       /\ (pay.pc \in {"idle", "done"} /\ pay' # pay)
             => /\ users' = users
                /\ pay'.pc = "done" => pay'.status = 400
       /\ (pay.pc = "pay_find" /\ pay' # pay) => users' = users]_vars

\* two credits were added to the seeded account: balance 1 -> 3, usage 0
C16_Witness ==
    /\ pay.pc = "done"
    /\ pay.status = 200
    /\ pay.phone = "p2"
    /\ users["p2"] # NoUser
    /\ users["p2"].blance = SeedAccount.blance + 2
    /\ users["p2"].smsSent = 0
    /\ nOps = 1

\* C17: the history handed to the provider holds the most recent 10 turns
\* of the account, oldest first, each as role and content: for an account
\* with more than 10 turns the latest ones and not the earliest
C17_HistoryMostRecent ==
    [][\A r \in Reqs :
          Took(r, "get_history")
            => LET turns == messages[req[r].phone]
                   n == Len(turns)
                   from == IF n > 10 THEN n - 10 + 1 ELSE 1
               IN req'[r].history =
                    [i \in 1..(n - from + 1) |->
                        [role |-> turns[from + i - 1].role,
                         content |-> turns[from + i - 1].content]]]_vars

\* C18: within a request, the user's turn is stored when a provider is
\* called and when the assistant's turn is about to be written; a reply
\* that carries generated text is emitted only when the assistant's turn
\* with that text is the newest turn of the account, right after the
\* user's turn; nothing is replied while the continuation is being stored
C18_TurnsBeforeReply ==
    \A r \in Reqs :
        LET turns == messages[req[r].phone]
            n == Len(turns)
            userTurn == [role |-> "user", content |-> req[r].text]
            assistantTurn == [role |-> "assistant",
                              content |-> Trim(req[r].aiResponse)]
        IN /\ req[r].pc \in {"get_history", "provider", "fallback",
                             "save_assistant_turn"}
                 => n >= 1 /\ turns[n] = userTurn
           /\ req[r].calls > 0 /\ req[r].pc # "done"
                 => \E i \in 1..n : turns[i] = userTurn
           /\ req[r].pc \in {"find_latest_index", "create_remaining"}
                 => /\ req[r].replies = <<>>
                    /\ n >= 2
                    /\ turns[n] = assistantTurn
                    /\ turns[n - 1] = userTurn
           /\ (\E i \in 1..Len(req[r].replies) : req[r].replies[i].kind = "ai")
                 => /\ n >= 2
                    /\ turns[n] = assistantTurn
                    /\ turns[n - 1] = userTurn

\* a generated reply too long for one message has been sent: both turns
\* and the continuation are stored
C18_Witness ==
    /\ req[1].pc = "done"
    /\ req[1].failedAt = "none"
    /\ req[1].replies # <<>>
    /\ req[1].replies[1].kind = "ai"
    /\ Len(req[1].aiResponse) > MaxSmsLength
    /\ remaining[req[1].phone] # <<>>
    /\ req[1].phone = "p1"

C20_ExactlyOneReply ==
    \A r \in Reqs :
        /\ req[r].pc = "done"
              => /\ Len(req[r].replies) = 1
                 /\ req[r].replies[1].kind \in
                      {"audio_too_large", "empty", "optout", "account",
                       "history_deleted", "account_deleted", "more",
                       "nothing_pending", "blocked", "ai", "error"}
                 /\ req[r].failedAt # "none"
                       => req[r].replies[1] = Reply("error", <<>>)
        /\ req[r].pc # "done" => req[r].replies = <<>>

\* the audio stage of a request failed, and the request was answered with
\* the one generic reply
C20_Witness ==
    /\ req[1].pc = "done"
    /\ req[1].failedAt = "audio"
    /\ req[1].replies = <<Reply("error", <<>>)>>

C22_AdmitNotIsolated ==
    [][\A r \in Reqs :
          /\ Took(r, "find_user")
                => /\ users' = users
                   /\ LET user == users[req[r].phone]
                      IN (user # NoUser /\ user.blance > 0)
                            => /\ req'[r].pc = "save_user"
                               /\ req'[r].user.blance = user.blance - 1
          /\ (Took(r, "save_user") /\ users[req[r].phone] # NoUser
                /\ UserValid(req[r].user))
                => /\ req'[r].pc = "save_user_turn"
                   /\ users'[req[r].phone].blance = req[r].user.blance
                   /\ users'[req[r].phone].smsSent = req[r].user.smsSent]_vars

\* two requests of the seeded account, which had one credit and received
\* no payment, are both past admission; the stored balance is 0
C22_Witness ==
    /\ \A r \in Reqs :
          /\ req[r].phone = "p2"
          /\ req[r].pc \in {"save_user_turn", "get_history", "provider"}
          /\ req[r].user # NoUser
          /\ req[r].user.blance = 0
    /\ SeedAccount.blance = 1
    /\ scheduled["p2"] = <<>>
    /\ users["p2"] # NoUser
    /\ users["p2"].blance = 0
    /\ users["p2"].smsSent = SeedAccount.smsSent + 1

\* C23: without an override in the options the primary provider is
\* selected, whatever the message and the history are, and the first
\* attempt is a call to it.  With an override that names the secondary
\* provider the first attempt fails without a call, and the fallback makes
\* the one call there is; a reply, if there is one, is what that call
\* returned
C23_SecondaryNeverSelected ==
    [][\A r \in Reqs :
          /\ (Took(r, "provider") /\ req[r].options.provider \notin Providers)
                => /\ SelectProvider(req[r].text, req[r].history,
                                     req[r].options) = "grok"
                   /\ req'[r].calls = req[r].calls + 1
          /\ (Took(r, "provider") /\ req[r].options.provider = "openai")
                => /\ req'[r].pc = "fallback"
                   /\ req'[r].calls = 0
          /\ (Took(r, "fallback") /\ req[r].options.provider = "openai")
                => /\ req'[r].calls = 1
                   /\ req'[r].pc = "save_assistant_turn"
                         => req'[r].aiResponse \in ProviderReplies]_vars

\* a complex message with a long history was routed with an override for
\* the secondary provider and got its reply from one call
C23_Witness ==
    /\ req[1].options.provider = "openai"
    /\ IsComplexMessage(req[1].text)
    /\ Len(req[1].history) > 5
    /\ req[1].pc = "save_assistant_turn"
    /\ req[1].calls = 1
    /\ req[1].aiResponse \in ProviderReplies

\* C24: the step of `delete history` leaves no turn of the sender stored
\* and answers with the confirmation; every account, the sender's
\* included, and the turns and continuations of every other account are as
\* before
C24_DeleteHistory ==
    [][\A r \in Reqs :
          Took(r, "cmd_delete_history")
             => /\ messages'[req[r].phone] = <<>>
                /\ req'[r].pc = "done"
                /\ req'[r].replies = <<Reply("history_deleted", <<>>)>>
                /\ users' = users
                /\ \A p \in Phones \ {req[r].phone} :
                      /\ messages'[p] = messages[p]
                      /\ remaining'[p] = remaining[p]]_vars

\* the seeded account deleted its ten turns and kept its balance and
\* usage counter, while the turns of the other account are still stored
C24_Witness ==
    /\ req[1].pc = "done"
    /\ req[1].phone = "p2"
    /\ req[1].replies = <<Reply("history_deleted", <<>>)>>
    /\ messages["p2"] = <<>>
    /\ users["p2"] = SeedAccount
    /\ Len(messages["p1"]) = 2

\* C25: the step of `delete history` leaves no continuation of the sender
\* stored, so that a following `more` finds none
C25_HistoryDeletionRemovesContinuations ==
    [][\A r \in Reqs :
          Took(r, "cmd_delete_history")
             => remaining'[req[r].phone] = <<>>]_vars

\* C26: the step of `more` changes no stored continuation, and answers
\* with the content of the continuation of the sender that was created
\* last among those that have not expired
C26_MoreReturnsLatest ==
    [][\A r \in Reqs :
          Took(r, "cmd_more")
             => LET mine == remaining[req[r].phone]
                    live == {i \in 1..Len(mine) : mine[i].expiresAt > now}
                IN /\ remaining' = remaining
                   /\ live # {}
                         => \E last \in live :
                              /\ \A i \in live : i <= last
                              /\ req'[r].replies =
                                    <<Reply("more", mine[last].content)>>]_vars

\* an account with two live continuations of different content asked for
\* `more` and got the second; both are still stored
C26_Witness ==
    /\ req[1].pc = "done"
    /\ Len(remaining["p1"]) = 2
    /\ remaining["p1"][1].expiresAt > now
    /\ remaining["p1"][1].content # remaining["p1"][2].content
    /\ req[1].replies = <<Reply("more", remaining["p1"][2].content)>>

\* C27: the sequence indices given to the continuations of one account,
\* in the order they were given, are strictly increasing, so none is given
\* twice
C27_IndicesNeverReused ==
    \A p \in Phones :
        \A i, j \in 1..Len(assigned[p]) :
            i < j => assigned[p][i] < assigned[p][j]

\* C28: a sweep that deletes something leaves, for every account, the
\* result of the lookup of `more` as it was, whatever requests are in
\* progress; and a second sweep right after it would delete nothing
C28_SweepHarmless ==
    [][(remaining' # remaining /\ req' = req)
          => /\ \A p \in Phones :
                   GetLatestRemainingMessage(p)' = GetLatestRemainingMessage(p)
             /\ CleanupExpiredResult' = remaining']_vars

\* the continuation of the seeded account has been swept while a request
\* was in progress
C28_Witness ==
    /\ assigned["p2"] # <<>>
    /\ remaining["p2"] = <<>>
    /\ users["p2"] # NoUser
    /\ \E r \in Reqs : InFlight(r)

\* C29: a request whose attachment is over the size ceiling is answered
\* with the audio-too-large reply
C29_OversizeGetsSentinel ==
    \A r \in Reqs :
        (req[r].pc = "done" /\ req[r].media = "oversize")
            => req[r].replies = <<Reply("audio_too_large", <<>>)>>

\* C30: for an attachment whose declared content type is outside the
\* supported set, the transcription provider is not called
C30_UnsupportedTypeNotTranscribed ==
    \A r \in Reqs :
        (req[r].media # "none" /\ req[r].contentType \notin SupportedFormats)
            => req[r].sttCalls = <<>>

\* C31: an account that was created by its first message with the trial
\* balance and has received no top-up has paid one credit for each of its
\* admitted messages, the first included: its balance is the trial balance
\* less its usage counter
C31_OneCreditPerMessage ==
    \A p \in Phones \ {"p2"} :
        (users[p] # NoUser
            /\ \A i \in 1..Len(scheduled[p]) : scheduled[p][i] # "credit")
           => users[p].blance = FreeSmsCredits - users[p].smsSent

\* C32: a generated reply over the length limit, whatever its length, goes
\* on from the write of the assistant turn to the creation of its
\* continuation, and the request ends with the truncated text and the
\* marker as its reply.  (Stated for a remainder with visible text.)
C32_LongReplyAlwaysSplit ==
    [][\A r \in Reqs :
          LET response == req[r].aiResponse
          IN (NeedsSplit(response) /\ RemainingValid(RemainingText(response)))
                => /\ Took(r, "save_assistant_turn")
                         => req'[r].pc = "find_latest_index"
                   /\ Took(r, "create_remaining")
                         => /\ Len(remaining'[req[r].phone]) =
                                  Len(remaining[req[r].phone]) + 1
                            /\ req'[r].replies =
                                  <<Reply("ai", TruncatedResponse(response)
                                                  \o ContinuationMarker)>>]_vars

\* C33: the text handleLongResponse returns is never longer than the
\* configured maxSmsLength, whatever the reply and the limit are
C33_WithinMaxLength ==
    \A r \in Reqs :
        (req[r].pc = "done" /\ req[r].replies # <<>>
            /\ req[r].replies[1].kind = "ai")
           => Len(req[r].replies[1].text) <= req[r].maxSmsLength

\* C34: a step in which an admitted request ends with a failure changes no
\* account: the account of the sender is stored, with the balance and the
\* usage counter that admission left in it
C34_NoRefund ==
    [][\A r \in Reqs :
          (/\ req[r].pc \in {"save_user_turn", "get_history", "provider",
                              "fallback", "save_assistant_turn",
                              "find_latest_index", "create_remaining"}
           /\ req'[r].pc = "done"
           /\ req'[r].failedAt # "none")
             => /\ users' = users
                /\ users[req[r].phone] # NoUser
                /\ users[req[r].phone].blance = req[r].user.blance
                /\ users[req[r].phone].smsSent = req[r].user.smsSent]_vars

\* the seeded account spent its one credit on a message for which both
\* provider calls failed
C34_Witness ==
    /\ req[1].pc = "done"
    /\ req[1].phone = "p2"
    /\ req[1].failedAt = "fallback"
    /\ req[1].replies = <<ErrorReply>>
    /\ users["p2"] # NoUser
    /\ users["p2"].blance = SeedAccount.blance - 1
    /\ users["p2"].smsSent = SeedAccount.smsSent + 1

\* C35: in the messages a request is about to send to the provider, the
\* text of its user message is the content of exactly one user message
C35_UserMessageOnce ==
    \A r \in Reqs :
        req[r].pc \in {"provider", "fallback"}
            => LET sent == ConversationalMessages(req[r].text, req[r].history)
               IN Cardinality({i \in 1..Len(sent) :
                                  /\ sent[i].role = "user"
                                  /\ sent[i].content = req[r].text}) = 1

\* C36: no turn and no continuation is written for an identifier that has
\* no account, so that none is stored for it once its deletion is over
C36_NoOrphanWrites ==
    [][\A p \in Phones :
          (\/ Len(messages'[p]) > Len(messages[p])
           \/ Len(remaining'[p]) > Len(remaining[p]))
             => users[p] # NoUser]_vars

\* C37: whatever the interleaving of the reads and writes of overlapping
\* requests and payments of one account, no stored balance is negative,
\* and neither is the balance of any document a request holds
C37_NeverNegativeUnderOverlap ==
    /\ \A p \in Phones : users[p] # NoUser => users[p].blance >= 0
    /\ \A r \in Reqs : req[r].user # NoUser => req[r].user.blance >= 0

\* two requests were admitted on the one credit of the seeded account
\* while a payment for it was made; the stored balance is 0
C37_Witness ==
    /\ \A r \in Reqs :
          /\ req[r].phone = "p2"
          /\ req[r].pc \in {"save_user_turn", "get_history", "provider"}
          /\ req[r].user # NoUser
          /\ req[r].user.blance = 0
    /\ pay.pc = "done"
    /\ pay.phone = "p2"
    /\ pay.status = 200
    /\ users["p2"] # NoUser
    /\ users["p2"].blance = 0

\* C38: when one message of the seeded account and one payment for it are
\* all that has happened, the message has been admitted and the payment
\* has succeeded, then the stored balance is the seeded balance plus the
\* credited amount less one, however their steps were interleaved
C38_NoCreditLost ==
    (/\ nOps = 2
     /\ req[1].phone = "p2"
     /\ req[1].user # NoUser
     /\ req[1].pc \notin {"idle", "find_user", "save_user"}
     /\ req[2].pc = "idle"
     /\ pay.pc = "done"
     /\ pay.phone = "p2"
     /\ pay.status = 200
     /\ users["p2"] # NoUser)
       => users["p2"].blance = SeedAccount.blance + pay.credits - 1

\* C39: the continuations stored for one account have distinct sequence
\* indices, also when the requests that created them overlapped
C39_DistinctIndices ==
    \A p \in Phones :
        \A i, j \in 1..Len(remaining[p]) :
            i # j => remaining[p][i].messageIndex # remaining[p][j].messageIndex

=============================================================================
